---- MODULE Spec2Model ----
(***************************************************************************)
(* Keysight N9323C spectrum analyser driver: the segmented (stitched)      *)
(* acquisition of Keysight_N9323C.get_data, run against a model of the     *)
(* instrument's SCPI surface.                                              *)
(*                                                                         *)
(* Frequencies are exact integers.  The unit is chosen so that np.linspace *)
(* over every window of the model is exact: one "coarse" step (1e8 Hz)     *)
(* is Grid = SweepPoints - 1 units, so the 5e8 Hz of the code is           *)
(* SegmentSpanSteps coarse steps.                                          *)
(***************************************************************************)
EXTENDS Integers, Sequences, FiniteSets, TLC

VARIABLES
    inst_start,      \* instrument: FREQuency:STARt
    inst_stop,       \* instrument: FREQuency:STOP
    inst_cont,       \* instrument: INIT:CONT (continuous sweep) on/off
    inst_avg_state,  \* instrument: :AVERage:TRACe1:STATe, raw 0/1
    inst_avg_count,  \* instrument: :AVERage:TRACe1:COUNt
    inst_avg_busy,   \* instrument: an average restarted and not yet waited for
    inst_trace,      \* instrument: window the displayed trace was swept over
    call,            \* per caller: the activation record of get_data
    log,             \* per caller: the commands the call has sent, in order
    proc_data,       \* per caller: what was pushed to its data processor
    serialized,      \* the callers hold a mutex around the whole of get_data
    mutex,           \* the caller holding that mutex, 0 when it is free
    sw_box,          \* switch box: per port, the byte that last set it
    sw_pos,          \* per port, the position last assigned through Position
    sw_tx,           \* switch box driver: the bytes the running access wrote last
    sw_sets,         \* switch box driver: Position assignments made so far
    sw_op            \* switch box driver: the running Position access

vars == <<inst_start, inst_stop, inst_cont, inst_avg_state, inst_avg_count,
          inst_avg_busy, inst_trace, call, log, proc_data,
          serialized, mutex, sw_box, sw_pos, sw_tx, sw_sets, sw_op>>

\* the state of the spectrum analyser driver and its instrument
sa_vars == <<inst_start, inst_stop, inst_cont, inst_avg_state, inst_avg_count,
             inst_avg_busy, inst_trace, call, log, proc_data>>

\* the mutex the callers of get_data may use
lock_vars == <<serialized, mutex>>

\* the state of the switch box driver and its box
sw_vars == <<sw_box, sw_pos, sw_tx, sw_sets, sw_op>>

inst_vars == <<inst_start, inst_stop, inst_cont, inst_avg_state,
               inst_avg_count, inst_avg_busy, inst_trace>>

----------------------------------------------------------------------------
(* Program constants *)

\* number of points of one sweep (SweepPoints property, np.linspace(..., 461))
SweepPoints == 461

\* 5e8 Hz, the span of one segment, in coarse steps of 1e8 Hz
SegmentSpanSteps == 5

(* Bounds of the model *)

\* largest stop frequency of the instrument on entry, in coarse steps
MaxFreq == 16

\* largest start frequency of the instrument on entry, in coarse steps
MaxStart == 1

\* largest average count of the instrument on entry
MaxAvgCount == 2

\* two callers: the widest sweep, in steps of 1e8 Hz
MaxSharedFreq == 6

\* the Position assignments made to the switch box
MaxSets == 1

----------------------------------------------------------------------------
(* Pure helpers *)

\* units per coarse step; makes every sample of linspace an integer
Grid == SweepPoints - 1

\* the literal 5e8 of get_data
max_segment_span == SegmentSpanSteps * Grid

Callers == {1, 2}

Min(a, b) == IF a <= b THEN a ELSE b

\* int(np.ceil(a / b)) for b > 0
CeilDiv(a, b) == IF a >= 0 THEN (a + b - 1) \div b ELSE 0 - ((0 - a) \div b)

\* mutant: np.linspace(..., endpoint=False)
Linspace_noend(a, b, n) == [j \in 1..n |-> a + ((j - 1) * (b - a)) \div n]

\* np.linspace(a, b, n): n evenly spaced samples, both ends included
Linspace(a, b, n) == [j \in 1..n |-> a + ((j - 1) * (b - a)) \div (n - 1)]

RECURSIVE Concat(_)
\* np.concatenate of a sequence of arrays
Concat(ss) == IF ss = <<>> THEN <<>> ELSE Head(ss) \o Concat(Tail(ss))

\* seg_start = start_freq + seg * 5e8
SegStart(start, s) == start + s * max_segment_span

\* mutant: the segment is not clipped to stop_freq
SegStop_nomin(start, stop, s) == SegStart(start, s) + max_segment_span

\* seg_stop = min(seg_start + 5e8, stop_freq)
SegStop(start, stop, s) == Min(SegStart(start, s) + max_segment_span, stop)

\* mutant: floor(span / 5e8) + 1 instead of the ceiling
NumSegments_floor(sp) == sp \div max_segment_span + 1

\* num_segments = int(np.ceil(span / 5e8))
NumSegments(sp) == CeilDiv(sp, max_segment_span)

\* freqs_per_segment of the first loop
FreqsPerSegment(start, stop, n) ==
    [s \in 1..n |-> Linspace(SegStart(start, s - 1),
                             SegStop(start, stop, s - 1), SweepPoints)]

\* average_enable get: raw reply parsed through the inverse val_mapping
ParseAvgState(raw) == raw = 1

\* mutant: averaging is always switched on
FormatAvgState_on(b) == 1

\* int(average_state) of the f-string
FormatAvgState(b) == IF b THEN 1 ELSE 0

\* the level the instrument measures at frequency f: an injective test
\* spectrum, so that a sample identifies the frequency it was taken at
Level(f) == 0 - f

\* reply to 'trace:data? trace1': the displayed trace, SweepPoints values
TraceData(tr) == [j \in 1..SweepPoints |->
                    Level(Linspace(tr.lo, tr.hi, SweepPoints)[j])]


\* leProc.get_all_data() after the pushes p: the processed form of all of them
GetAllData(p) == [processed |-> p]

----------------------------------------------------------------------------
(* The call's position and the command it is about to send *)

QuerySteps == {"q_span", "q_start", "q_stop", "q_avg_state", "q_avg_count"}

SegmentSteps == {"w_start", "w_stop", "w_contoff", "ask_opc", "w_avgstate",
                 "w_avgcount", "w_clear", "q_trace"}

RestoreSteps == {"r_start", "r_stop", "r_cont"}

\* the positions at which get_data talks to the instrument
IOSteps == QuerySteps \cup SegmentSteps \cup RestoreSteps

\* the activation record of a call that has not been made
NoCall == [pc |-> "idle", data_processor |-> FALSE, span |-> 0,
           start_freq |-> 0, stop_freq |-> 0, average_state |-> FALSE,
           average_count |-> 0, num_segments |-> 0, seg |-> 0,
           wfm_x |-> <<>>, wfm_data |-> <<>>, ret |-> <<>>, err |-> "None"]

Cmd(name, arg, s) == [cmd |-> name, arg |-> arg, seg |-> s]

\* the SCPI command of the statement the call is at (seg = -1: outside the loop)
Command(c) ==
    LET f == call[c]
        s == f.seg
    IN CASE f.pc = "q_span"      -> Cmd("SENSe:FREQuency:SPAN?", 0, -1)
         [] f.pc = "q_start"     -> Cmd("FREQuency:STARt?", 0, -1)
         [] f.pc = "q_stop"      -> Cmd("FREQuency:STOP?", 0, -1)
         [] f.pc = "q_avg_state" -> Cmd(":AVERage:TRACe1:STATe?", 0, -1)
         [] f.pc = "q_avg_count" -> Cmd(":AVERage:TRACe1:COUNt?", 0, -1)
         [] f.pc = "w_start"     ->
                Cmd("FREQ:STAR", SegStart(f.start_freq, s), s)
         [] f.pc = "w_stop"      ->
                Cmd("FREQ:STOP", SegStop(f.start_freq, f.stop_freq, s), s)
         [] f.pc = "w_contoff"   -> Cmd("INIT:CONT OFF", 0, s)
         [] f.pc = "ask_opc"     -> Cmd("*CLS;INIT:IMM;*OPC?", 0, s)
         [] f.pc = "w_avgstate"  ->
                Cmd(":AVERage:TRACe1:STATe", FormatAvgState(f.average_state), s)
         [] f.pc = "w_avgcount"  -> Cmd(":AVERage:TRACe1:COUNt", f.average_count, s)
         [] f.pc = "w_clear"     -> Cmd(":AVERage:TRACe1:CLEar", 0, s)
         [] f.pc = "q_trace"     -> Cmd("trace:data? trace1", 0, s)
         [] f.pc = "r_start"     -> Cmd("FREQ:STAR", f.wfm_x[1], -1)
         [] f.pc = "r_stop"      -> Cmd("FREQ:STOP", f.wfm_x[Len(f.wfm_x)], -1)
         [] f.pc = "r_cont"      -> Cmd("INIT:CONT 1", 0, -1)

\* the command reaches the instrument; busy: an average was still accumulating
Sent(c, ok) ==
    log' = [log EXCEPT ![c] = Append(@,
              [cmd |-> Command(c).cmd, arg |-> Command(c).arg,
               seg |-> Command(c).seg, ok |-> ok, busy |-> inst_avg_busy])]

At(c, label) == call[c].pc = label

----------------------------------------------------------------------------
(* Initial state: the driver is constructed against an instrument whose     *)
(* settings it does not reset; no call of get_data has been made.           *)

InitAnalyser(maxStart, maxStop) ==
    /\ inst_start \in {k * Grid : k \in 0..maxStart}
    /\ inst_stop \in {k * Grid : k \in 0..maxStop}
    /\ inst_start <= inst_stop
    /\ inst_cont \in BOOLEAN
    /\ inst_avg_state \in {0, 1}
    /\ inst_avg_count \in 1..MaxAvgCount
    /\ inst_avg_busy = FALSE
    /\ inst_trace = [lo |-> inst_start, hi |-> inst_stop]
    /\ call = [c \in Callers |-> NoCall]
    /\ log = [c \in Callers |-> <<>>]
    /\ proc_data = [c \in Callers |-> <<>>]

----------------------------------------------------------------------------
(* SW_DCsmuBox: a serial switch box of 16 ports, each in one of five        *)
(* positions.  One byte sets a port, one byte queries it; bytes are         *)
(* naturals below 256 and the bit operators are those of Python on them.    *)

RECURSIVE BitOr(_, _)
BitOr(a, b) ==
    IF a = 0 THEN b
    ELSE IF b = 0 THEN a
    ELSE 2 * BitOr(a \div 2, b \div 2) + (IF a % 2 = 1 \/ b % 2 = 1 THEN 1 ELSE 0)

RECURSIVE BitAnd(_, _)
BitAnd(a, b) ==
    IF a = 0 \/ b = 0 THEN 0
    ELSE 2 * BitAnd(a \div 2, b \div 2) + (IF a % 2 = 1 /\ b % 2 = 1 THEN 1 ELSE 0)

RECURSIVE ShiftL(_, _)
ShiftL(a, n) == IF n = 0 THEN a ELSE ShiftL(2 * a, n - 1)

RECURSIVE ShiftR(_, _)
ShiftR(a, n) == IF n = 0 THEN a ELSE ShiftR(a \div 2, n - 1)

\* int.from_bytes(bs, byteorder='big'); the empty byte string gives 0
RECURSIVE IntFromBytes(_)
IntFromBytes(bs) ==
    IF bs = <<>> THEN 0
    ELSE 256 * IntFromBytes(SubSeq(bs, 1, Len(bs) - 1)) + bs[Len(bs)]

\* the port names in the order of their indices: Port1..9, 13..16, 10..12
ports == <<1, 2, 3, 4, 5, 6, 7, 8, 9, 13, 14, 15, 16, 10, 11, 12>>

\* the port indices, SW_DCsmuBoxPort._port
Ports == 0..(Len(ports) - 1)

_lestates == <<"Psense", "Pforce", "Pground", "Pbnc", "Popen">>

States == {_lestates[i] : i \in 1..Len(_lestates)}

\* list.index, 0-based
Index(pos) == (CHOOSE i \in 1..Len(_lestates) : _lestates[i] = pos) - 1

\* the tries get_state allows itself
Tries == 100

\* mutant: the position index is shifted by four bits only
SetByte_shift4(p, state_val) == BitOr(ShiftL(state_val, 4), p)

\* the byte Position = pos writes for port p
SetByte(p, state_val) == BitOr(ShiftL(state_val, 5), p)

\* the byte get_state sends for port p, 0xE0 | p
QueryByte(p) == BitOr(224, p)

\* the test get_state makes on a reply before it returns a position
ValidReply(p, ret_str) ==
    /\ BitAnd(IntFromBytes(ret_str), 31) = p
    /\ ShiftR(IntFromBytes(ret_str), 5) < Len(_lestates)

\* what ser.read(1) can give: one byte, or nothing when the read times out
Replies == {<<b>> : b \in 0..255} \cup {<<>>}

\* the box takes a byte: a set byte of one of its ports moves that port
BoxReceive(box, b) ==
    IF ShiftR(b, 5) < Len(_lestates) /\ BitAnd(b, 31) \in Ports
    THEN [box EXCEPT ![BitAnd(b, 31)] = b]
    ELSE box

\* the box answers a query byte with the byte that last set the port
BoxReply(box, q) == <<box[BitAnd(q, 31)]>>

NoAccess == [pc |-> "idle", port |-> 0, tries |-> 0, queries |-> 0,
             ret_str |-> <<>>, ret |-> "None", err |-> "None"]

\* the box was left with every port at the same position
InitSwitch(S) ==
    /\ \E pos \in S :
         /\ sw_box = [p \in Ports |-> SetByte(p, Index(pos))]
         /\ sw_pos = [p \in Ports |-> pos]
    /\ sw_tx = <<>>
    /\ sw_sets = 0
    /\ sw_op = NoAccess

\* one caller, no mutex; the switch box driver is not used
Init ==
    /\ InitAnalyser(MaxStart, MaxFreq)
    /\ serialized = FALSE
    /\ mutex = 0
    /\ InitSwitch({"Popen"})

----------------------------------------------------------------------------
(* get_data, one action per statement that talks to the instrument *)

\* def get_data(self, **kwargs): the caller passes a data_processor or none
get_data(c) ==
    /\ At(c, "idle")
    /\ \E dp \in BOOLEAN :
         call' = [call EXCEPT ![c].pc = "q_span", ![c].data_processor = dp]
    /\ UNCHANGED <<inst_vars, log, proc_data>>
    /\ UNCHANGED <<lock_vars, sw_vars>>

\* span = self.sense_frequency_span()
q_span(c) ==
    /\ At(c, "q_span")
    /\ call' = [call EXCEPT ![c].span = inst_stop - inst_start,
                            ![c].pc = "q_start"]
    /\ Sent(c, TRUE)
    /\ UNCHANGED <<inst_vars, proc_data>>
    /\ UNCHANGED <<lock_vars, sw_vars>>

\* start_freq = self.sense_frequency_start()
q_start(c) ==
    /\ At(c, "q_start")
    /\ call' = [call EXCEPT ![c].start_freq = inst_start, ![c].pc = "q_stop"]
    /\ Sent(c, TRUE)
    /\ UNCHANGED <<inst_vars, proc_data>>
    /\ UNCHANGED <<lock_vars, sw_vars>>

\* stop_freq = self.sense_frequency_stop()
q_stop(c) ==
    /\ At(c, "q_stop")
    /\ call' = [call EXCEPT ![c].stop_freq = inst_stop,
                            ![c].pc = "q_avg_state"]
    /\ Sent(c, TRUE)
    /\ UNCHANGED <<inst_vars, proc_data>>
    /\ UNCHANGED <<lock_vars, sw_vars>>

\* average_state = self.AveragesEnable
q_avg_state(c) ==
    /\ At(c, "q_avg_state")
    /\ call' = [call EXCEPT ![c].average_state = ParseAvgState(inst_avg_state),
                            ![c].pc = "q_avg_count"]
    /\ Sent(c, TRUE)
    /\ UNCHANGED <<inst_vars, proc_data>>
    /\ UNCHANGED <<lock_vars, sw_vars>>

\* average_count = self.AveragesNum
q_avg_count(c) ==
    /\ At(c, "q_avg_count")
    /\ call' = [call EXCEPT ![c].average_count = inst_avg_count,
                            ![c].pc = "compute"]
    /\ Sent(c, TRUE)
    /\ UNCHANGED <<inst_vars, proc_data>>
    /\ UNCHANGED <<lock_vars, sw_vars>>

\* num_segments, the first loop, wfm_x = np.concatenate(...), wfm_data = [];
\* np.concatenate of no arrays raises ValueError
compute(c) ==
    /\ At(c, "compute")
    /\ LET f == call[c]
           n == NumSegments(f.span)
       IN IF n <= 0
          THEN call' = [call EXCEPT ![c].num_segments = n,
                                    ![c].pc = "raised",
                                    ![c].err = "ValueError"]
          ELSE call' = [call EXCEPT
                  ![c].num_segments = n,
                  ![c].wfm_x = Concat(FreqsPerSegment(f.start_freq,
                                                      f.stop_freq, n)),
                  ![c].wfm_data = <<>>,
                  ![c].seg = 0,
                  ![c].pc = "w_start"]
    /\ UNCHANGED <<inst_vars, log, proc_data>>
    /\ UNCHANGED <<lock_vars, sw_vars>>

\* self.write(f'FREQ:STAR {seg_start}')
w_start(c) ==
    /\ At(c, "w_start")
    /\ inst_start' = Command(c).arg
    /\ call' = [call EXCEPT ![c].pc = "w_stop"]
    /\ Sent(c, TRUE)
    /\ UNCHANGED <<inst_stop, inst_cont, inst_avg_state, inst_avg_count,
                   inst_avg_busy, inst_trace, proc_data>>
    /\ UNCHANGED <<lock_vars, sw_vars>>

\* mutant: continuous sweep is left on before the sweep is triggered
w_stop_skipcont(c) ==
    /\ At(c, "w_stop")
    /\ inst_stop' = Command(c).arg
    /\ call' = [call EXCEPT ![c].pc = "ask_opc"]
    /\ Sent(c, TRUE)
    /\ UNCHANGED <<inst_start, inst_cont, inst_avg_state, inst_avg_count,
                   inst_avg_busy, inst_trace, proc_data>>
    /\ UNCHANGED <<lock_vars, sw_vars>>

\* self.write(f'FREQ:STOP {seg_stop}')
w_stop(c) ==
    /\ At(c, "w_stop")
    /\ inst_stop' = Command(c).arg
    /\ call' = [call EXCEPT ![c].pc = "w_contoff"]
    /\ Sent(c, TRUE)
    /\ UNCHANGED <<inst_start, inst_cont, inst_avg_state, inst_avg_count,
                   inst_avg_busy, inst_trace, proc_data>>
    /\ UNCHANGED <<lock_vars, sw_vars>>

\* self.write('INIT:CONT OFF')
w_contoff(c) ==
    /\ At(c, "w_contoff")
    /\ inst_cont' = FALSE
    /\ call' = [call EXCEPT ![c].pc = "ask_opc"]
    /\ Sent(c, TRUE)
    /\ UNCHANGED <<inst_start, inst_stop, inst_avg_state, inst_avg_count,
                   inst_avg_busy, inst_trace, proc_data>>
    /\ UNCHANGED <<lock_vars, sw_vars>>

\* mutant: the sweep is not taken, the trace memory keeps the last one
ask_opc_nosweep(c) ==
    /\ At(c, "ask_opc")
    /\ inst_avg_busy' = FALSE
    /\ call' = [call EXCEPT ![c].pc = "w_avgstate"]
    /\ Sent(c, TRUE)
    /\ UNCHANGED <<inst_start, inst_stop, inst_cont, inst_avg_state,
                   inst_avg_count, inst_trace, proc_data>>
    /\ UNCHANGED <<lock_vars, sw_vars>>

\* self.ask('*CLS;INIT:IMM;*OPC?'): one sweep of the current window is taken
\* and the reply comes only once every pending operation has completed
ask_opc(c) ==
    /\ At(c, "ask_opc")
    /\ inst_trace' = [lo |-> inst_start, hi |-> inst_stop]
    /\ inst_avg_busy' = FALSE
    /\ call' = [call EXCEPT ![c].pc = "w_avgstate"]
    /\ Sent(c, TRUE)
    /\ UNCHANGED <<inst_start, inst_stop, inst_cont, inst_avg_state,
                   inst_avg_count, proc_data>>
    /\ UNCHANGED <<lock_vars, sw_vars>>

\* self.write(f':AVERage:TRACe1:STATe {int(average_state)}')
w_avgstate(c) ==
    /\ At(c, "w_avgstate")
    /\ inst_avg_state' = Command(c).arg
    /\ call' = [call EXCEPT ![c].pc = "w_avgcount"]
    /\ Sent(c, TRUE)
    /\ UNCHANGED <<inst_start, inst_stop, inst_cont, inst_avg_count,
                   inst_avg_busy, inst_trace, proc_data>>
    /\ UNCHANGED <<lock_vars, sw_vars>>

\* self.write(f':AVERage:TRACe1:COUNt {average_count}')
w_avgcount(c) ==
    /\ At(c, "w_avgcount")
    /\ inst_avg_count' = Command(c).arg
    /\ call' = [call EXCEPT ![c].pc = "w_clear"]
    /\ Sent(c, TRUE)
    /\ UNCHANGED <<inst_start, inst_stop, inst_cont, inst_avg_state,
                   inst_avg_busy, inst_trace, proc_data>>
    /\ UNCHANGED <<lock_vars, sw_vars>>

\* self.write(':AVERage:TRACe1:CLEar'): with averaging on, the accumulation
\* starts over and is in progress until something waits for it
w_clear(c) ==
    /\ At(c, "w_clear")
    /\ inst_avg_busy' = (inst_avg_state = 1)
    /\ call' = [call EXCEPT ![c].pc = "q_trace"]
    /\ Sent(c, TRUE)
    /\ UNCHANGED <<inst_start, inst_stop, inst_cont, inst_avg_state,
                   inst_avg_count, inst_trace, proc_data>>
    /\ UNCHANGED <<lock_vars, sw_vars>>

\* mutant: the segment's data is put in front of wfm_data
q_trace_prepend(c) ==
    /\ At(c, "q_trace")
    /\ LET f == call[c]
       IN call' = [call EXCEPT
              ![c].wfm_data = TraceData(inst_trace) \o f.wfm_data,
              ![c].seg = f.seg + 1,
              ![c].pc = IF f.seg + 1 < f.num_segments
                        THEN "w_start" ELSE "r_start"]
    /\ Sent(c, TRUE)
    /\ UNCHANGED <<inst_vars, proc_data>>
    /\ UNCHANGED <<lock_vars, sw_vars>>

\* seg_data = ...query_ascii_values('trace:data? trace1', ...);
\* wfm_data.extend(seg_data); next iteration of the loop or leave it
q_trace(c) ==
    /\ At(c, "q_trace")
    /\ LET f == call[c]
       IN call' = [call EXCEPT
              ![c].wfm_data = f.wfm_data \o TraceData(inst_trace),
              ![c].seg = f.seg + 1,
              ![c].pc = IF f.seg + 1 < f.num_segments
                        THEN "w_start" ELSE "r_start"]
    /\ Sent(c, TRUE)
    /\ UNCHANGED <<inst_vars, proc_data>>
    /\ UNCHANGED <<lock_vars, sw_vars>>

\* self.write(f'FREQ:STAR {wfm_x[0]}')
r_start(c) ==
    /\ At(c, "r_start")
    /\ inst_start' = Command(c).arg
    /\ call' = [call EXCEPT ![c].pc = "r_stop"]
    /\ Sent(c, TRUE)
    /\ UNCHANGED <<inst_stop, inst_cont, inst_avg_state, inst_avg_count,
                   inst_avg_busy, inst_trace, proc_data>>
    /\ UNCHANGED <<lock_vars, sw_vars>>

\* self.write(f'FREQ:STOP {wfm_x[-1]}')
r_stop(c) ==
    /\ At(c, "r_stop")
    /\ inst_stop' = Command(c).arg
    /\ call' = [call EXCEPT ![c].pc = "r_cont"]
    /\ Sent(c, TRUE)
    /\ UNCHANGED <<inst_start, inst_cont, inst_avg_state, inst_avg_count,
                   inst_avg_busy, inst_trace, proc_data>>
    /\ UNCHANGED <<lock_vars, sw_vars>>

\* self.write('INIT:CONT 1')
r_cont(c) ==
    /\ At(c, "r_cont")
    /\ inst_cont' = TRUE
    /\ call' = [call EXCEPT ![c].pc = "finish"]
    /\ Sent(c, TRUE)
    /\ UNCHANGED <<inst_start, inst_stop, inst_avg_state, inst_avg_count,
                   inst_avg_busy, inst_trace, proc_data>>
    /\ UNCHANGED <<lock_vars, sw_vars>>

\* ret_data of the call
RetData(f) == [parameters |-> <<"Frequency">>,
               Power_dBm |-> f.wfm_data,
               Frequency |-> f.wfm_x]

\* mutant: the processor is fed but the raw result is returned
finish_rawreturn(c) ==
    /\ At(c, "finish")
    /\ LET f == call[c]
           pushed == Append(proc_data[c], RetData(f))
       IN /\ proc_data' = IF f.data_processor
                          THEN [proc_data EXCEPT ![c] = pushed] ELSE proc_data
          /\ call' = [call EXCEPT ![c].ret = <<[data |-> RetData(f)]>>,
                                  ![c].pc = "returned"]
    /\ UNCHANGED <<inst_vars, log>>
    /\ UNCHANGED <<lock_vars, sw_vars>>

\* ret_data is built; with a data_processor it is pushed and the processed
\* data returned, without one ret_data itself is returned
finish(c) ==
    /\ At(c, "finish")
    /\ LET f == call[c]
           pushed == Append(proc_data[c], RetData(f))
       IN IF f.data_processor
          THEN /\ proc_data' = [proc_data EXCEPT ![c] = pushed]
               /\ call' = [call EXCEPT
                      ![c].ret = <<[data |-> GetAllData(pushed)]>>,
                      ![c].pc = "returned"]
          ELSE /\ proc_data' = proc_data
               /\ call' = [call EXCEPT ![c].ret = <<[data |-> RetData(f)]>>,
                                       ![c].pc = "returned"]
    /\ UNCHANGED <<inst_vars, log>>
    /\ UNCHANGED <<lock_vars, sw_vars>>

\* mutant: the exception is caught and the call goes on to restore the
\* instrument and return what it has
io_error_swallow(c) ==
    /\ call[c].pc \in SegmentSteps
    /\ call' = [call EXCEPT ![c].pc = "r_start", ![c].err = "VisaIOError"]
    /\ Sent(c, FALSE)
    /\ UNCHANGED <<inst_vars, proc_data>>
    /\ UNCHANGED <<lock_vars, sw_vars>>

\* a write or query raises (timeout, lost connection): nothing catches it in
\* get_data, so the call ends there and the exception reaches the caller
io_error(c) ==
    /\ call[c].pc \in IOSteps
    /\ call' = [call EXCEPT ![c].pc = "raised", ![c].err = "VisaIOError"]
    /\ Sent(c, FALSE)
    /\ UNCHANGED <<inst_vars, proc_data>>
    /\ UNCHANGED <<lock_vars, sw_vars>>

Step(c) ==
    \/ get_data(c)
    \/ q_span(c)
    \/ q_start(c)
    \/ q_stop(c)
    \/ q_avg_state(c)
    \/ q_avg_count(c)
    \/ compute(c)
    \/ w_start(c)
    \/ w_stop(c)
    \/ w_contoff(c)
    \/ ask_opc(c)
    \/ w_avgstate(c)
    \/ w_avgcount(c)
    \/ w_clear(c)
    \/ q_trace(c)
    \/ r_start(c)
    \/ r_stop(c)
    \/ r_cont(c)
    \/ finish(c)
    \/ io_error(c)

\* one caller uses the instrument
Next == Step(1)

Spec == Init /\ [][Next]_vars

----------------------------------------------------------------------------
(* Two callers share the instrument.  Each makes one call of get_data for   *)
(* the raw data; when they serialize, a caller takes the mutex before the   *)
(* call and gives it back when the call has returned or raised.             *)

\* a caller enters the mutex it holds around the whole call
acquire(c) ==
    /\ serialized
    /\ mutex = 0
    /\ At(c, "idle")
    /\ mutex' = c
    /\ UNCHANGED <<sa_vars, serialized, sw_vars>>

\* a caller may start its call: it holds the mutex, or none is used
MayCall(c) == serialized => mutex = c

\* the call is over and the caller leaves the mutex
release(c) ==
    /\ mutex = c
    /\ call[c].pc \in {"returned", "raised"}
    /\ mutex' = 0
    /\ UNCHANGED <<sa_vars, serialized, sw_vars>>

\* the instrument sweeps at most MaxSharedFreq steps of 1e8 Hz from 0 Hz
InitShared ==
    /\ InitAnalyser(0, MaxSharedFreq)
    /\ inst_stop > 0
    /\ inst_cont
    /\ inst_avg_state = 0
    /\ inst_avg_count = 1
    /\ serialized \in BOOLEAN
    /\ mutex = 0
    /\ InitSwitch({"Popen"})

NextShared ==
    \E c \in Callers :
        \/ acquire(c)
        \/ MayCall(c) /\ get_data(c) /\ ~call'[c].data_processor
        \/ q_span(c)
        \/ q_start(c)
        \/ q_stop(c)
        \/ q_avg_state(c)
        \/ q_avg_count(c)
        \/ compute(c)
        \/ w_start(c)
        \/ w_stop(c)
        \/ w_contoff(c)
        \/ ask_opc(c)
        \/ w_avgstate(c)
        \/ w_avgcount(c)
        \/ w_clear(c)
        \/ q_trace(c)
        \/ r_start(c)
        \/ r_stop(c)
        \/ r_cont(c)
        \/ finish(c)
        \/ io_error(c)
        \/ release(c)

SpecShared == InitShared /\ [][NextShared]_vars

----------------------------------------------------------------------------
(* SW_DCsmuBoxPort: Position and get_state, one action per access and per   *)
(* try of the retry loop.                                                   *)

\* Position = pos on port p: one byte is written, and the box takes it
Position_set(p, pos) ==
    /\ sw_op.pc = "idle"
    /\ sw_sets < MaxSets
    /\ sw_sets' = sw_sets + 1
    /\ IF pos \in States
       THEN LET msg == SetByte(p, Index(pos))
            IN /\ sw_tx' = <<msg>>
               /\ sw_box' = BoxReceive(sw_box, msg)
               /\ sw_pos' = [sw_pos EXCEPT ![p] = pos]
               /\ sw_op' = [NoAccess EXCEPT !.pc = "written", !.port = p]
       ELSE /\ sw_op' = [NoAccess EXCEPT !.pc = "raised", !.port = p,
                                         !.err = "ValueError"]
            /\ UNCHANGED <<sw_tx, sw_box, sw_pos>>
    /\ UNCHANGED <<sa_vars, lock_vars>>

\* reading Position on port p enters get_state
Position_get(p) ==
    /\ sw_op.pc = "idle"
    /\ sw_op' = [NoAccess EXCEPT !.pc = "loop", !.port = p, !.tries = Tries]
    /\ UNCHANGED <<sw_box, sw_pos, sw_tx, sw_sets>>
    /\ UNCHANGED <<sa_vars, lock_vars>>

\* one try of get_state: the query is written and ret_str is read; ok is
\* FALSE when the serial port raised instead, after the write when sent
get_state(ret_str, ok, sent) ==
    /\ sw_op.pc = "loop"
    /\ sw_op.tries > 0
    /\ sw_tx' = IF ok \/ sent THEN <<QueryByte(sw_op.port)>> ELSE sw_tx
    /\ IF ok /\ ValidReply(sw_op.port, ret_str)
       THEN sw_op' = [sw_op EXCEPT
                        !.pc = "returned",
                        !.queries = @ + 1,
                        !.ret_str = ret_str,
                        !.ret = _lestates[ShiftR(IntFromBytes(ret_str), 5) + 1]]
       ELSE sw_op' = [sw_op EXCEPT
                        !.pc = IF sw_op.tries - 1 > 0 THEN "loop" ELSE "raised",
                        !.err = IF sw_op.tries - 1 > 0 THEN "None"
                                ELSE "AssertionError",
                        !.queries = @ + 1,
                        !.tries = @ - 1]
    /\ UNCHANGED <<sw_box, sw_pos, sw_sets>>
    /\ UNCHANGED <<sa_vars, lock_vars>>

\* the access is over and its result is with the caller
Position_done ==
    /\ sw_op.pc \in {"written", "returned", "raised"}
    /\ sw_op' = NoAccess
    /\ sw_tx' = <<>>
    /\ UNCHANGED <<sw_box, sw_pos, sw_sets>>
    /\ UNCHANGED <<sa_vars, lock_vars>>

\* the analyser is not used
InitSwitchOnly(S) ==
    /\ InitAnalyser(0, 0)
    /\ inst_cont
    /\ inst_avg_state = 0
    /\ inst_avg_count = 1
    /\ serialized = FALSE
    /\ mutex = 0
    /\ InitSwitch(S)

\* the serial line gives any byte, nothing, or raises
NextLine ==
    \/ \E p \in Ports : Position_get(p)
    \/ \E ret_str \in Replies : get_state(ret_str, TRUE, TRUE)
    \/ \E sent \in BOOLEAN : get_state(<<>>, FALSE, sent)
    \/ Position_done

SpecLine == InitSwitchOnly({"Popen"}) /\ [][NextLine]_vars

\* the box answers every query with the byte that last set the port
NextBox ==
    \/ \E p \in Ports, pos \in States \cup {"Pnone"} : Position_set(p, pos)
    \/ \E p \in Ports : Position_get(p)
    \/ get_state(BoxReply(sw_box, QueryByte(sw_op.port)), TRUE, TRUE)
    \/ Position_done

SpecBox == InitSwitchOnly(States) /\ [][NextBox]_vars

----------------------------------------------------------------------------
(* Reading the state for the properties below *)

\* the frequency axis has been computed (the call is past np.concatenate)
Computed(c) == call[c].wfm_x # <<>>

\* the segment loop has been left normally
LoopDone(c) == call[c].pc \in RestoreSteps \cup {"finish", "returned"}

\* the call failed with a communication error inside segment s
FailedInSegment(c, s) ==
    /\ call[c].err = "VisaIOError"
    /\ log[c] # <<>>
    /\ log[c][Len(log[c])].seg = s

\* positions in the log of the commands named name that reached the instrument
SentIdx(c, name) ==
    {k \in 1..Len(log[c]) : log[c][k].cmd = name /\ log[c][k].ok}

\* position in the log of command name of segment s (0 if not sent)
SegIdx(c, name, s) ==
    LET ks == {k \in SentIdx(c, name) : log[c][k].seg = s}
    IN IF ks = {} THEN 0 ELSE CHOOSE k \in ks : TRUE

\* the raw result the call handed out: returned, or pushed to the processor
RawResult(c) ==
    IF call[c].data_processor
    THEN proc_data[c][Len(proc_data[c])]
    ELSE call[c].ret[1].data

\* C1: with stop_freq > start_freq the call performs exactly
\* ceil((stop_freq - start_freq) / max_segment_span) segments: num_segments
\* is the least n with n * max_segment_span >= stop_freq - start_freq, one
\* trace is read per segment 0..n-1 and none more; a span of at most
\* max_segment_span gives 1 segment, and [0, 1.2e9] gives 3.
C1_SegmentCount ==
    \A c \in Callers :
        LET f == call[c]
            d == f.stop_freq - f.start_freq
            n == f.num_segments
            reads == SentIdx(c, "trace:data? trace1")
        IN (Computed(c) /\ f.stop_freq > f.start_freq) =>
             /\ (n - 1) * max_segment_span < d
             /\ d <= n * max_segment_span
             /\ (d <= max_segment_span => n = 1)
             /\ (f.start_freq = 0 /\ f.stop_freq = 12 * Grid => n = 3)
             /\ Cardinality(reads) <= n
             /\ LoopDone(c) =>
                  /\ Cardinality(reads) = n
                  /\ {log[c][k].seg : k \in reads} = 0..(n - 1)

\* a call over [0, 1.2e9] has returned after 3 segments
C1_Witness ==
    /\ call[1].pc = "returned"
    /\ call[1].start_freq = 0
    /\ call[1].stop_freq = 12 * Grid
    /\ Cardinality(SentIdx(1, "trace:data? trace1")) = 3

\* C2: the windows written to the instrument in the loop are contiguous and
\* cover [start_freq, stop_freq]: the first starts at start_freq, each starts
\* where the previous one stopped, the last stops at stop_freq, and every
\* window has seg_start <= seg_stop and width at most max_segment_span, with
\* only the last one narrower.
C2_WindowsCover ==
    \A c \in Callers :
        LET f == call[c]
            n == f.num_segments
            lo(s) == log[c][SegIdx(c, "FREQ:STAR", s)].arg
            hi(s) == log[c][SegIdx(c, "FREQ:STOP", s)].arg
            hasLo(s) == SegIdx(c, "FREQ:STAR", s) # 0
            hasHi(s) == SegIdx(c, "FREQ:STOP", s) # 0
        IN Computed(c) =>
             /\ hasLo(0) => lo(0) = f.start_freq
             /\ \A s \in 0..(n - 1) :
                  /\ (hasLo(s) /\ hasHi(s)) =>
                       /\ lo(s) <= hi(s)
                       /\ hi(s) - lo(s) <= max_segment_span
                       /\ s < n - 1 => hi(s) - lo(s) = max_segment_span
                  /\ (s > 0 /\ hasLo(s)) => (hasHi(s - 1) /\ lo(s) = hi(s - 1))
             /\ LoopDone(c) =>
                  /\ \A s \in 0..(n - 1) : hasLo(s) /\ hasHi(s)
                  /\ hi(n - 1) = f.stop_freq
             /\ \A k \in SentIdx(c, "FREQ:STAR") \cup SentIdx(c, "FREQ:STOP") :
                  log[c][k].seg < n

\* the loop of a three-segment call is done, its last window narrower
C2_Witness ==
    /\ LoopDone(1)
    /\ call[1].num_segments = 3
    /\ log[1][SegIdx(1, "FREQ:STOP", 2)].arg
         - log[1][SegIdx(1, "FREQ:STAR", 2)].arg < max_segment_span

\* the window written to the instrument for segment s
SegWindow(c, s) == [lo |-> log[c][SegIdx(c, "FREQ:STAR", s)].arg,
                    hi |-> log[c][SegIdx(c, "FREQ:STOP", s)].arg]

\* the entries of segment s (0-based) of a stitched sequence
Block(xs, s) == SubSeq(xs, s * SweepPoints + 1, (s + 1) * SweepPoints)

\* C3: when get_data returns, the amplitudes handed out number
\* num_segments * sample_count (461 per segment), as many as the frequency
\* axis, and the entries of segment i in both are those of segment i: the
\* frequency samples of window i and the trace the instrument swept over
\* window i, in acquisition order.  While the loop runs the amplitudes
\* number 461 per segment read.
C3_AmplitudesMatchAxis ==
    \A c \in Callers :
        LET f == call[c]
            n == f.num_segments
        IN /\ (Computed(c) /\ f.pc # "raised") =>
                Len(f.wfm_data) = f.seg * SweepPoints
           /\ f.pc = "returned" =>
                LET r == RawResult(c)
                IN /\ Len(r.Power_dBm) = n * SweepPoints
                   /\ Len(r.Power_dBm) = Len(r.Frequency)
                   /\ \A s \in 0..(n - 1) :
                        /\ Block(r.Frequency, s) =
                             Linspace(SegWindow(c, s).lo, SegWindow(c, s).hi,
                                      SweepPoints)
                        /\ Block(r.Power_dBm, s) = TraceData(SegWindow(c, s))
                        /\ \A j \in 1..SweepPoints :
                             r.Power_dBm[s * SweepPoints + j] =
                               Level(r.Frequency[s * SweepPoints + j])

\* a call of three segments has returned 3 * 461 amplitudes
C3_Witness ==
    /\ call[1].pc = "returned"
    /\ call[1].num_segments = 3
    /\ Len(RawResult(1).Power_dBm) = 3 * SweepPoints

\* C4: the frequency axis is non-decreasing over the whole stitched trace:
\* within a segment the samples increase from seg_start to seg_stop, and at
\* every internal boundary the last sample of segment i equals (so is <=)
\* the first sample of segment i+1.
C4_AxisMonotone ==
    \A c \in Callers :
        LET f == call[c]
            n == f.num_segments
            x == f.wfm_x
        IN Computed(c) =>
             /\ Len(x) = n * SweepPoints
             /\ \A k \in 1..(Len(x) - 1) : x[k] <= x[k + 1]
             /\ \A s \in 0..(n - 1) :
                  /\ x[s * SweepPoints + 1] = SegStart(f.start_freq, s)
                  /\ x[(s + 1) * SweepPoints] =
                       SegStop(f.start_freq, f.stop_freq, s)
                  /\ \A j \in 1..(SweepPoints - 1) :
                       x[s * SweepPoints + j] < x[s * SweepPoints + j + 1]
             /\ \A s \in 1..(n - 1) :
                  x[s * SweepPoints] = x[s * SweepPoints + 1]

\* an axis of three segments, with two internal boundaries, has been built
C4_Witness ==
    /\ Computed(1)
    /\ call[1].num_segments = 3
    /\ call[1].wfm_x[SweepPoints] = call[1].wfm_x[SweepPoints + 1]
    /\ call[1].wfm_x[2 * SweepPoints] = call[1].wfm_x[2 * SweepPoints + 1]

\* the call is over: it returned, or a communication error in a segment
\* ended it
Completed(c) ==
    \/ call[c].pc = "returned"
    \/ \E s \in 0..(call[c].num_segments - 1) : FailedInSegment(c, s)

\* C5: after get_data completes, by returning or by a communication error
\* in any segment, continuous sweep is on again: 'INIT:CONT 1' was sent
\* exactly once and is the last command of the call.
C5_ContinuousReenabled ==
    \A c \in Callers :
        Completed(c) =>
            /\ Cardinality(SentIdx(c, "INIT:CONT 1")) = 1
            /\ log[c][Len(log[c])].cmd = "INIT:CONT 1"
            /\ inst_cont

\* C6: when get_data finishes, by returning or by a communication error in
\* a segment, the instrument's window is [first sample, last sample] of the
\* frequency axis, which is the [start_freq, stop_freq] it had on entry.
C6_WindowRestored ==
    \A c \in Callers :
        Completed(c) =>
            /\ inst_start = call[c].wfm_x[1]
            /\ inst_stop = call[c].wfm_x[Len(call[c].wfm_x)]
            /\ inst_start = call[c].start_freq
            /\ inst_stop = call[c].stop_freq

\* What the code does do (C5, C6 on the path without an error): a call that
\* returns has sent 'INIT:CONT 1' once, as its last command, and has put the
\* window back to the one read on entry.
RestoredOnReturn ==
    \A c \in Callers :
        call[c].pc = "returned" =>
            /\ Cardinality(SentIdx(c, "INIT:CONT 1")) = 1
            /\ log[c][Len(log[c])].cmd = "INIT:CONT 1"
            /\ inst_cont
            /\ inst_start = call[c].start_freq
            /\ inst_stop = call[c].stop_freq

\* the statements of one iteration of the segment loop, in program order
SegmentOrder == <<"FREQ:STAR", "FREQ:STOP", "INIT:CONT OFF",
                  "*CLS;INIT:IMM;*OPC?", ":AVERage:TRACe1:STATe",
                  ":AVERage:TRACe1:COUNt", ":AVERage:TRACe1:CLEar",
                  "trace:data? trace1">>

\* the queries made on entry, in program order
QueryOrder == <<"SENSe:FREQuency:SPAN?", "FREQuency:STARt?", "FREQuency:STOP?",
                ":AVERage:TRACe1:STATe?", ":AVERage:TRACe1:COUNt?">>

\* C7: segment by segment, the commands go out in the order: window start,
\* window stop, continuous sweep off, trigger one sweep with the blocking
\* completion query, averaging enable, averaging count, averaging restart,
\* trace read; nothing of segment i+1 is sent before the trace of segment i
\* has been read, and when the completion query has answered the sweep of
\* the segment's window is complete.
C7_SegmentCommandOrder ==
    \A c \in Callers :
        LET f == call[c]
            n == f.num_segments
            nq == Len(QueryOrder)
            ns == Len(SegmentOrder)
        IN /\ \A k \in 1..Len(log[c]) :
                LET e == log[c][k]
                IN /\ k <= nq => (e.cmd = QueryOrder[k] /\ e.seg = -1)
                   /\ (k > nq /\ k <= nq + ns * n) =>
                        /\ e.cmd = SegmentOrder[((k - nq - 1) % ns) + 1]
                        /\ e.seg = (k - nq - 1) \div ns
                   /\ k > nq + ns * n => e.seg = -1
           /\ f.pc = "w_avgstate" =>
                /\ inst_trace = SegWindow(c, f.seg)
                /\ ~inst_avg_busy

\* the trace of the second segment has been read after the first one's
C7_Witness ==
    /\ SegIdx(1, "trace:data? trace1", 1) # 0
    /\ SegIdx(1, "trace:data? trace1", 0) < SegIdx(1, "FREQ:STAR", 1)
    /\ call[1].pc = "returned"

C9_AveragingCompleteBeforeRead ==
    \A c \in Callers :
        \A k \in SentIdx(c, "trace:data? trace1") :
            LET r == SegIdx(c, ":AVERage:TRACe1:CLEar", log[c][k].seg)
            IN /\ r # 0
               /\ \E m \in (r + 1)..(k - 1) :
                     /\ log[c][m].cmd = "*CLS;INIT:IMM;*OPC?"
                     /\ log[c][m].ok
               /\ ~log[c][k].busy

\* C10: a communication failure during segment i (or any other instrument
\* access of the call) ends the call there: the failed command is the last
\* one sent, it is not sent again, nothing of a later segment and no
\* restoring command follows, the call raises, returns nothing, and nothing
\* is pushed to the data processor.
C10_FailureAborts ==
    \A c \in Callers :
        call[c].err = "VisaIOError" =>
            LET l == log[c]
                last == l[Len(l)]
            IN /\ call[c].pc = "raised"
               /\ call[c].ret = <<>>
               /\ proc_data[c] = <<>>
               /\ {k \in 1..Len(l) : ~l[k].ok} = {Len(l)}
               /\ \A k \in 1..(Len(l) - 1) :
                     ~(l[k].cmd = last.cmd /\ l[k].seg = last.seg)
               /\ last.seg >= 0 =>
                     \A k \in 1..Len(l) :
                        /\ l[k].seg <= last.seg
                        /\ l[k].cmd # "INIT:CONT 1"
               /\ Cardinality(SentIdx(c, "trace:data? trace1")) <
                     call[c].num_segments \/ last.seg = -1

\* the trace read of the second of three segments failed, with a data
\* processor supplied
C10_Witness ==
    /\ call[1].err = "VisaIOError"
    /\ call[1].data_processor
    /\ call[1].num_segments = 3
    /\ log[1][Len(log[1])].cmd = "trace:data? trace1"
    /\ log[1][Len(log[1])].seg = 1

\* C11: with a data processor the raw result (frequency axis and
\* amplitudes) is pushed to it exactly once, after the instrument has been
\* restored, and the call returns the processor's processed data instead of
\* the raw result; without one the raw result is returned as it is and
\* nothing is pushed.
C11_ProcessorPath ==
    \A c \in Callers :
        LET f == call[c]
            raw == [parameters |-> <<"Frequency">>,
                    Power_dBm |-> f.wfm_data,
                    Frequency |-> f.wfm_x]
        IN /\ proc_data[c] # <<>> =>
                /\ f.pc = "returned"
                /\ f.data_processor
                /\ log[c][Len(log[c])].cmd = "INIT:CONT 1"
                /\ Cardinality(SentIdx(c, "INIT:CONT 1")) = 1
                /\ SegIdx(c, "FREQ:STAR", -1) # 0
                /\ SegIdx(c, "FREQ:STOP", -1) # 0
           /\ f.pc = "returned" =>
                /\ Len(f.ret) = 1
                /\ IF f.data_processor
                   THEN /\ proc_data[c] = <<raw>>
                        /\ f.ret[1].data = GetAllData(<<raw>>)
                        /\ f.ret[1].data # raw
                   ELSE /\ proc_data[c] = <<>>
                        /\ f.ret[1].data = raw
           /\ f.pc # "returned" => f.ret = <<>>

\* a call of two segments made with a data processor has returned
C11_Witness ==
    /\ call[1].pc = "returned"
    /\ call[1].data_processor
    /\ call[1].num_segments = 2
    /\ Len(proc_data[1]) = 1

----------------------------------------------------------------------------
(* Two callers on one instrument *)

\* the window the instrument is set to
Window == [lo |-> inst_start, hi |-> inst_stop]

\* the call has set both ends of the window of the segment it is in
OwnWindowSet(c) ==
    /\ SegIdx(c, "FREQ:STAR", call[c].seg) # 0
    /\ SegIdx(c, "FREQ:STOP", call[c].seg) # 0

\* the window of the segment the call is in, as the call set it
OwnWindow(c) == SegWindow(c, call[c].seg)

\* the values the call has written to one end of the window
Written(c, name) == {log[c][k].arg : k \in SentIdx(c, name)}

\* C12: get_data does not isolate the instrument's frequency window per
\* call.  When two calls are serialized by a mutex held around the whole
\* call, every trace a call reads is taken while the window is the segment
\* window that call set last: at the read the window and the swept trace
\* are its own, and the amplitudes it has stitched are those of its own
\* segment windows.  A call reads a trace under another window only when the
\* calls are not serialized, and that window was then set by the other call.
C12_NoIsolation ==
    \A c \in Callers :
        LET f == call[c]
            o == CHOOSE d \in Callers : d # c
        IN /\ At(c, "q_trace") =>
                /\ OwnWindowSet(c)
                /\ serialized =>
                     /\ Window = OwnWindow(c)
                     /\ inst_trace = OwnWindow(c)
                     /\ mutex = c
                /\ Window # OwnWindow(c) =>
                     /\ ~serialized
                     /\ inst_start # OwnWindow(c).lo =>
                          inst_start \in Written(o, "FREQ:STAR")
                     /\ inst_stop # OwnWindow(c).hi =>
                          inst_stop \in Written(o, "FREQ:STOP")
           /\ serialized =>
                \A s \in 0..(f.num_segments - 1) :
                    SegIdx(c, "trace:data? trace1", s) # 0 =>
                        Block(f.wfm_data, s) = TraceData(SegWindow(c, s))

\* not serialized: call 1 is about to read the trace of its second segment
\* while the window is the first segment's, set by call 2 after call 1 set
\* its own
C12_Witness ==
    /\ ~serialized
    /\ At(1, "q_trace")
    /\ call[1].seg = 1
    /\ OwnWindowSet(1)
    /\ Window # OwnWindow(1)
    /\ call[2].pc \in SegmentSteps
    /\ call[2].seg = 0
    /\ OwnWindowSet(2)
    /\ Window = OwnWindow(2)

\* serialized: call 2 is about to read the trace of its second segment
\* after call 1 has returned and left the mutex
C12_SerializedRead ==
    /\ serialized
    /\ mutex = 2
    /\ call[1].pc = "returned"
    /\ At(2, "q_trace")
    /\ call[2].seg = 1
    /\ Window = OwnWindow(2)

----------------------------------------------------------------------------
(* The switch box *)

\* get_state makes at most 100 queries and then stops: while it loops it has
\* tries left and has used one per query, and when it gives up it has made
\* all 100, holds no position and fails with an assertion error
GetStateBounded ==
    /\ sw_op.queries <= Tries
    /\ sw_op.pc = "loop" =>
         /\ sw_op.tries > 0
         /\ sw_op.queries = Tries - sw_op.tries
    /\ sw_op.pc = "raised" =>
         /\ sw_op.err = "AssertionError"
         /\ sw_op.ret = "None"
         /\ sw_op.tries = 0
         /\ sw_op.queries = Tries

\* the reply is one byte, its low 5 bits are the port index p and its upper
\* 3 bits are the index of a position
ReplyNamesPosition(p, ret_str) ==
    /\ Len(ret_str) = 1
    /\ ret_str[1] % 32 = p
    /\ ret_str[1] \div 32 < 5

\* C13: get_state always ends within 100 queries of the box.  It returns a
\* position only on a reply byte whose low 5 bits are the port's own index
\* and whose upper 3 bits are the index (< 5) of a position, and then the
\* position at that index; every other reply, an empty reply and a transport
\* exception are discarded and the query is made again; after 100 tries
\* without such a reply it fails with an assertion error and returns nothing.
C13_GetStateRetries ==
    /\ GetStateBounded
    /\ sw_op.pc = "returned" =>
         /\ ReplyNamesPosition(sw_op.port, sw_op.ret_str)
         /\ sw_op.ret = _lestates[sw_op.ret_str[1] \div 32 + 1]

\* what the code does: as C13, but for the port of index 0 an empty reply is
\* taken for the byte 0 and "Psense" is returned
GetStateEmptyReply ==
    /\ GetStateBounded
    /\ sw_op.pc = "returned" =>
         \/ /\ ReplyNamesPosition(sw_op.port, sw_op.ret_str)
            /\ sw_op.ret = _lestates[sw_op.ret_str[1] \div 32 + 1]
         \/ /\ sw_op.ret_str = <<>>
            /\ sw_op.port = 0
            /\ sw_op.ret = "Psense"

\* get_state has given up on port 15 after 100 queries
GetStateGaveUp ==
    /\ sw_op.pc = "raised"
    /\ sw_op.port = 15
    /\ sw_op.queries = Tries

\* get_state has returned a position on its last try
GetStateLastTry ==
    /\ sw_op.pc = "returned"
    /\ sw_op.queries = Tries
    /\ sw_op.ret = "Popen"

\* the port and position pairs Position can be assigned
Settings == Ports \X States

\* C14: for every port index p in 0..15 and each of the five positions s,
\* Position = s writes the single byte (index(s) << 5) | p, that is
\* 32 * index(s) + p.  This byte differs from the query byte 0xE0 | p' of
\* every port and from the set byte of every other pair of port and
\* position.  With a box that answers a query with the byte that last set
\* the port, a read of Position returns after one query the position last
\* assigned to that port (the round trip), and an assignment to one port
\* leaves every other port of the box where it was.
C14_SetGetRoundTrip ==
    /\ sw_op.pc = "written" =>
         LET x == <<sw_op.port, sw_pos[sw_op.port]>>
             b == 32 * Index(x[2]) + x[1]
         IN /\ sw_tx = <<b>>
            /\ b = SetByte(x[1], Index(x[2]))
            /\ b \in 0..255
            /\ \A q \in Ports : b # QueryByte(q) /\ QueryByte(q) = 224 + q
            /\ \A y \in Settings : y # x => SetByte(y[1], Index(y[2])) # b
    /\ sw_op.pc = "returned" =>
         /\ sw_op.ret = sw_pos[sw_op.port]
         /\ sw_op.queries = 1
         /\ sw_tx = <<224 + sw_op.port>>
    /\ \A q \in Ports :
         /\ sw_box[q] % 32 = q
         /\ _lestates[sw_box[q] \div 32 + 1] = sw_pos[q]

\* port 15 was put to "Pbnc" and a read of its Position has returned "Pbnc";
\* the other ports are at "Popen" as before
C14_Witness ==
    /\ sw_sets = 1
    /\ sw_op.pc = "returned"
    /\ sw_op.port = 15
    /\ sw_op.ret = "Pbnc"
    /\ \A q \in Ports \ {15} : sw_pos[q] = "Popen"

\* port 0 was put to "Psense" (the set byte 0) and a read of port 9 has
\* returned the position port 9 had before
C14_OtherPortRead ==
    /\ sw_sets = 1
    /\ sw_pos[0] = "Psense"
    /\ sw_op.pc = "returned"
    /\ sw_op.port = 9
    /\ sw_op.ret = "Pground"

====
